---- MODULE Spec2Model ----
(***************************************************************************)
(* Model of src/main.py: the /messages-upsert webhook of the WhatsApp      *)
(* chatbot.  Every request is a coroutine on one asyncio event loop; a     *)
(* request gives the loop up only at an `await`, and the synchronous calls *)
(* (subprocess.run, model.generate_content) keep the loop while they run.  *)
(*                                                                         *)
(* Texts and byte strings are sequences of one-character strings.  An      *)
(* optional value (a dict key that may be absent) is <<>> when absent and  *)
(* <<v>> when present.                                                     *)
(***************************************************************************)
EXTENDS Integers, Sequences, FiniteSets, TLC

\* ---------------------------------------------------------------- bounds
MaxEntregas == 2   \* deliveries of the same event to one slot
MaxPaginas == 2    \* pages held by the history store
MaxRegs == 2       \* records per page of the history store
MaxResposta == 140 \* longest reply text of the pacing specification

\* Two request slots: one carries the sequential behaviours, two carry every
\* interference between a pair of requests in flight.
Reqs == {1, 2}

\* ------------------------------------------------------- program constants
TARGET_JID == "target@jid"
caminho_audio_ogg == "audio_recebido.ogg"
caminho_audio_mp3 == "audio_convertido.mp3"
\* A text is the sequence of the code points of its characters.
\* main.py:242 (non-ASCII letters shown as ?): "Desculpe, n?o consegui processar seu ?udio desta vez."
DESCULPA_AUDIO ==
    <<68, 101, 115, 99, 117, 108, 112, 101, 44, 32, 110, 227, 111, 32,
      99, 111, 110, 115, 101, 103, 117, 105, 32, 112, 114, 111, 99, 101,
      115, 115, 97, 114, 32, 115, 101, 117, 32, 225, 117, 100, 105, 111,
      32, 100, 101, 115, 116, 97, 32, 118, 101, 122, 46>>
\* main.py:270: "Ocorreu um erro interno e n?o pude processar sua mensagem."
ERRO_INTERNO ==
    <<79, 99, 111, 114, 114, 101, 117, 32, 117, 109, 32, 101, 114, 114,
      111, 32, 105, 110, 116, 101, 114, 110, 111, 32, 101, 32, 110, 227,
      111, 32, 112, 117, 100, 101, 32, 112, 114, 111, 99, 101, 115, 115,
      97, 114, 32, 115, 117, 97, 32, 109, 101, 110, 115, 97, 103, 101,
      109, 46>>
\* main.py:246: "Por favor, ou?a este ?udio e responda de acordo:"
INSTRUCAO_AUDIO ==
    <<80, 111, 114, 32, 102, 97, 118, 111, 114, 44, 32, 111, 117, 231,
      97, 32, 101, 115, 116, 101, 32, 225, 117, 100, 105, 111, 32, 101,
      32, 114, 101, 115, 112, 111, 110, 100, 97, 32, 100, 101, 32, 97,
      99, 111, 114, 100, 111, 58>>

\* ------------------------------------------------------------- optionals
Nada == <<>>
Algum(v) == <<v>>
Tem(o) == Len(o) > 0
Val(o) == o[1]

\* ------------------------------------------------------------ str.strip()
\* The characters str.strip() removes, those with str.isspace(): the ASCII
\* white space 9-13 and 32, the separators 28-31, U+0085, U+00A0, U+1680,
\* U+2000 to U+200A, U+2028, U+2029, U+202F, U+205F and U+3000.
EhEspaco(c) ==
    c \in (9..13) \cup (28..32) \cup {133, 160, 5760} \cup (8192..8202)
            \cup {8232, 8233, 8239, 8287, 12288}

RECURSIVE lstrip(_)
lstrip(s) ==
    IF s = <<>> THEN <<>>
    ELSE IF EhEspaco(Head(s)) THEN lstrip(Tail(s)) ELSE s

RECURSIVE rstrip(_)
rstrip(s) ==
    IF s = <<>> THEN <<>>
    ELSE IF EhEspaco(s[Len(s)]) THEN rstrip(SubSeq(s, 1, Len(s) - 1)) ELSE s

\* strip() left out.
strip_ausente(s) == s

strip(s) == rstrip(lstrip(s))

\* ----------------------------------------------------- message envelopes
\* A message map has the optional keys extendedTextMessage.text,
\* conversation, audioMessage and ephemeralMessage.message (an inner map
\* with the first three keys).
Interna(ext, conv, audio) == [ext |-> ext, conv |-> conv, audio |-> audio]
Msg(ext, conv, audio, eph) ==
    [ext |-> ext, conv |-> conv, audio |-> audio, eph |-> eph]

\* main.py:47-48 and main.py:180: one level of ephemeral unwrapping.
desembrulhar(m) ==
    IF Tem(m.eph) THEN Val(m.eph) ELSE Interna(m.ext, m.conv, m.audio)

\* main.py:50-53 and main.py:193:
\* (obj.get("extendedTextMessage", {}).get("text") or obj.get("conversation", "")).strip()
texto_bruto(obj) ==
    LET ext == IF Tem(obj.ext) THEN Val(obj.ext) ELSE <<>>
        conv == IF Tem(obj.conv) THEN Val(obj.conv) ELSE <<>>
    IN IF ext # <<>> THEN ext ELSE conv

texto_de(obj) == strip(texto_bruto(obj))

\* ---------------------------------------------------- history formatting
\* A raw record of the store: [ts, fromMe, message].
role_de(reg) == IF reg.fromMe THEN "model" ELSE "user"

TurnoTexto(role, texto) ==
    [role |-> role, parts |-> <<[kind |-> "text", data |-> texto]>>]

RECURSIVE formatar_historico_para_gemini(_)
formatar_historico_para_gemini(mensagens_api) ==
    IF mensagens_api = <<>> THEN <<>>
    ELSE LET msg == Head(mensagens_api)
             texto == texto_de(desembrulhar(msg.message))
             resto == formatar_historico_para_gemini(Tail(mensagens_api))
         IN IF texto = <<>> THEN resto
            ELSE <<TurnoTexto(role_de(msg), texto)>> \o resto

\* sorted(historico_completo, key=int(messageTimestamp)): a stable sort.
RECURSIVE inserir(_, _)
inserir(reg, ordenada) ==
    IF ordenada = <<>> THEN <<reg>>
    ELSE IF reg.ts < Head(ordenada).ts THEN <<reg>> \o ordenada
         ELSE <<Head(ordenada)>> \o inserir(reg, Tail(ordenada))

\* The final sort left out: records stay in arrival order.
sorted_ausente(regs) == regs

RECURSIVE sorted(_)
sorted(regs) ==
    IF regs = <<>> THEN <<>>
    ELSE inserir(regs[Len(regs)], sorted(SubSeq(regs, 1, Len(regs) - 1)))


\* ------------------------------------------------------------ base64, ffmpeg
\* base64.b64decode(s) with validate=False: a str is first encoded as
\* ASCII (ValueError when it holds any other character), the rest is
\* binascii.a2b_base64 in its non-strict mode. Bytes are a sequence of
\* numbers 0..255.
PAD == 61
NoAlfabeto(c) ==
    c \in (65..90) \cup (97..122) \cup (48..57) \cup {43, 47}
valor_b64(c) ==
    IF c \in 65..90 THEN c - 65
    ELSE IF c \in 97..122 THEN c - 97 + 26
    ELSE IF c \in 48..57 THEN c - 48 + 52
    ELSE IF c = 43 THEN 62
    ELSE 63
SoASCII(s) == \A i \in 1..Len(s) : s[i] < 128

Decodificado(bytes) == [erro |-> FALSE, bytes |-> bytes]
\* ValueError, or its subclass binascii.Error.
ErroBinascii == [erro |-> TRUE, bytes |-> <<>>]

\* The decoding loop from character i on: quad_pos is the position in the
\* current group of four, leftchar the bits not yet written, pads the "="
\* seen since the last data character. Characters outside the alphabet are
\* skipped. The interpreters differ on what a completed padding does: with
\* para_no_pad the decoder stops there and ignores the rest (CPython up to
\* 3.12), without it the padding is skipped and only counts at the end of
\* the text (CPython 3.13).
RECURSIVE a2b_base64(_, _, _, _, _, _, _)
a2b_base64(s, i, quad_pos, leftchar, pads, out, para_no_pad) ==
    IF i > Len(s)
    THEN IF quad_pos # 0 /\ (para_no_pad \/ quad_pos + pads < 4)
         THEN ErroBinascii
         ELSE Decodificado(out)
    ELSE IF s[i] = PAD
    THEN IF quad_pos >= 2
         THEN IF quad_pos + pads + 1 >= 4 /\ para_no_pad
              THEN Decodificado(out)
              ELSE a2b_base64(s, i + 1, quad_pos, leftchar, pads + 1, out, para_no_pad)
         ELSE a2b_base64(s, i + 1, quad_pos, leftchar, pads, out, para_no_pad)
    ELSE IF ~NoAlfabeto(s[i])
    THEN a2b_base64(s, i + 1, quad_pos, leftchar, pads, out, para_no_pad)
    ELSE LET v == valor_b64(s[i])
         IN IF quad_pos = 0
            THEN a2b_base64(s, i + 1, 1, v, 0, out, para_no_pad)
            ELSE IF quad_pos = 1
            THEN a2b_base64(s, i + 1, 2, v % 16, 0,
                            Append(out, leftchar * 4 + v \div 16), para_no_pad)
            ELSE IF quad_pos = 2
            THEN a2b_base64(s, i + 1, 3, v % 4, 0,
                            Append(out, leftchar * 16 + v \div 4), para_no_pad)
            ELSE a2b_base64(s, i + 1, 0, 0, 0,
                            Append(out, leftchar * 64 + v), para_no_pad)

\* main.py:223: what base64.b64decode(s) can give, one outcome for each
\* behaviour of the interpreter the service runs on.
b64decode(s) ==
    IF ~SoASCII(s) THEN {ErroBinascii}
    ELSE { a2b_base64(s, 1, 0, 0, 0, <<>>, para_no_pad) : para_no_pad \in BOOLEAN }

\* ffmpeg -i ogg -acodec libmp3lame mp3: the output is derived from the
\* input, here a frame-sync byte followed by the input bytes.
transcodificar(ogg) == <<255>> \o ogg

\* main.py:261, in milliseconds.
FATOR_MS == 60
PISO_MS == 2000
TETO_MS == 8000
Min(a, b) == IF a < b THEN a ELSE b
Max(a, b) == IF a > b THEN a ELSE b

\* A delay without the upper clamp.
tempo_de_espera_sem_teto(len) == Max(len * FATOR_MS, PISO_MS)

tempo_de_espera(len) == Min(Max(len * FATOR_MS, PISO_MS), TETO_MS)

\* ------------------------------------------------------------ input domains
\* "a", "\u00e9", " \n" and "\u2003a \n".
tA == <<97>>
tB == <<233>>
tEsp == <<32, 10>>
tPad == <<8195, 97, 32, 10>>

MsgConv(t) == Msg(Nada, Algum(t), FALSE, Nada)
MsgExt(t, c) == Msg(Algum(t), c, FALSE, Nada)
MsgAudio == Msg(Nada, Nada, TRUE, Nada)
MsgOutra == Msg(Nada, Nada, FALSE, Nada)
MsgEph(i) == Msg(Nada, Nada, FALSE, Algum(i))

\* Inbound message envelopes: every branch of main.py:180-250.
Mensagens ==
    { MsgConv(tA), MsgConv(tEsp), MsgConv(<<>>),
      MsgExt(tPad, Nada), MsgExt(tEsp, Algum(tA)), MsgExt(<<>>, Algum(tB)),
      MsgEph(Interna(Nada, Algum(tB), FALSE)),
      MsgEph(Interna(Nada, Nada, TRUE)),
      Msg(Nada, Algum(tA), TRUE, Nada),
      MsgAudio, MsgOutra }

Jids == {TARGET_JID, "outro@jid", ""}
Ids == {"", "MSG1"}

Evento(tipo, dados) == [event |-> tipo, data |-> dados]
Dados(fromMe, jid, id, m) ==
    [key |-> [fromMe |-> fromMe, remoteJid |-> jid, id |-> id], message |-> m]

Eventos ==
    { Evento("connection.update", Algum(Dados(FALSE, TARGET_JID, "MSG1", MsgConv(tA)))),
      Evento("messages.upsert", Nada) }
    \cup { Evento("messages.upsert", Algum(Dados(f, j, i, m))) :
             f \in BOOLEAN, j \in Jids, i \in Ids, m \in Mensagens }

EventosAudio ==
    { Evento("messages.upsert", Algum(Dados(FALSE, TARGET_JID, "MSG1", MsgAudio))) }

\* Raw records of the history store.
Reg(ts, fromMe, m) == [ts |-> ts, fromMe |-> fromMe, message |-> m]
Registros ==
    { Reg(2, FALSE, MsgConv(tA)),
      Reg(1, TRUE, MsgEph(Interna(Algum(tPad), Algum(tB), FALSE))),
      Reg(1, FALSE, MsgConv(tEsp)) }

SeqAte(S, n) == UNION { [1..k -> S] : k \in 0..n }
Paginas == SeqAte(Registros, MaxRegs)
Stores == SeqAte(Paginas, MaxPaginas)

StoresBasicos ==
    { <<>>,
      << <<Reg(2, FALSE, MsgConv(tA))>> >>,
      << <<Reg(2, FALSE, MsgConv(tA))>>,
         <<Reg(1, TRUE, MsgEph(Interna(Algum(tPad), Algum(tB), FALSE)))>> >> }

\* The "base64" key of a get-media response.
PayloadsMedia ==
    { Nada, Algum(<<>>),
      Algum(<<81, 81, 61, 61>>),                      \* "QQ=="
      Algum(<<81, 81, 61, 61, 81, 103, 61, 61>>),     \* "QQ==Qg=="
      Algum(<<33, 33, 33, 33>>),                      \* "!!!!"
      Algum(<<81, 81>>),                              \* "QQ"
      Algum(<<81, 81, 61, 61, 233>>) }                \* "QQ==\u00e9"

\* Lengths of the generated reply text.
Respostas == {10, 500}

\* Every reply length up to MaxResposta, and a long reply.
Comprimentos == (0..MaxResposta) \cup {500}

\* Outcomes of an outbound HTTP call: "ok" a 2xx response, "rede" an
\* httpx.RequestError (network errors and timeouts), "http" a non-2xx
\* response.  The history fetch tells the timeout apart as "timeout".
Desfechos == {"ok", "rede", "http"}
RequestErrors == {"timeout", "rede"}


\* -------------------------------------------------------------------- state
VARIABLES
    ativo,                 \* request slots that receive an event
    inbox,                 \* the event delivered to each slot
    store,                 \* pages of raw records held by the history store
    entregas,              \* deliveries of its event each slot has received
    pc,                    \* where each request is suspended
    loop,                  \* request running synchronous code, 0 when none
    pagina_atual, total_paginas, historico_completo,
    historico_ordenado,    \* main.py:104
    historico,             \* value returned by obter_historico_conversa
    conteudo_para_gemini,  \* main.py:187, 253
    audio_data,            \* main.py:223
    mp3_audio_data,        \* main.py:209, 235
    texto_resposta,        \* main.py:257, the length of the reply
    espera,                \* main.py:261
    chamadas,              \* calls each request has issued, in order
    resultados,            \* outcome of each completed call, in order
    pedidas,               \* page numbers asked of find-messages, in order
    status,                \* what the handler returned
    files,                 \* temporary files on disk: [nome, dono, dados]
    criados                \* names each request has written

locais == <<pagina_atual, total_paginas, historico_completo, historico_ordenado,
            historico>>
audio == <<audio_data, mp3_audio_data, files, criados>>
entrega == <<texto_resposta, espera>>
ambiente == <<ativo, inbox, store, entregas>>
vars == <<ativo, inbox, store, entregas, pc, loop, pagina_atual, total_paginas,
          historico_completo, historico_ordenado, historico,
          conteudo_para_gemini, audio_data, mp3_audio_data, texto_resposta,
          espera,
          chamadas, resultados, pedidas, status, files, criados>>

Ocioso == "idle"
Fim == "done"
EmVoo(r) == pc[r] \notin {Ocioso, Fim}

InitLocais ==
    /\ entregas = [r \in Reqs |-> 0]
    /\ pc = [r \in Reqs |-> Ocioso]
    /\ loop = 0
    /\ pagina_atual = [r \in Reqs |-> 1]
    /\ total_paginas = [r \in Reqs |-> 1]
    /\ historico_completo = [r \in Reqs |-> <<>>]
    /\ historico_ordenado = [r \in Reqs |-> <<>>]
    /\ historico = [r \in Reqs |-> Nada]
    /\ conteudo_para_gemini = [r \in Reqs |-> <<>>]
    /\ audio_data = [r \in Reqs |-> <<>>]
    /\ mp3_audio_data = [r \in Reqs |-> <<>>]
    /\ texto_resposta = [r \in Reqs |-> Nada]
    /\ espera = [r \in Reqs |-> 0]
    /\ chamadas = [r \in Reqs |-> <<>>]
    /\ resultados = [r \in Reqs |-> <<>>]
    /\ pedidas = [r \in Reqs |-> <<>>]
    /\ status = [r \in Reqs |-> ""]
    /\ files = {}
    /\ criados = [r \in Reqs |-> {}]

EventoPadrao == Evento("messages.upsert", Nada)

\* One request at a time, any event, a small history store.
Init ==
    /\ InitLocais
    /\ ativo = {1}
    /\ inbox \in {f \in [Reqs -> Eventos] : \A r \in Reqs \ {1} : f[r] = EventoPadrao}
    /\ store \in StoresBasicos

\* Concurrent audio requests.
InitConc ==
    /\ InitLocais
    /\ ativo = Reqs
    /\ inbox \in [Reqs -> EventosAudio]
    /\ store \in {<<>>}

\* Two text requests, an empty history store.
InitPacing ==
    /\ InitLocais
    /\ ativo = Reqs
    /\ inbox = [r \in Reqs |->
                 Evento("messages.upsert",
                        Algum(Dados(FALSE, TARGET_JID, "MSG1", MsgConv(tA))))]
    /\ store = <<>>

\* One text request over every history store.
InitHist ==
    /\ InitLocais
    /\ ativo = {1}
    /\ inbox = [r \in Reqs |->
                 Evento("messages.upsert",
                        Algum(Dados(FALSE, TARGET_JID, "MSG1", MsgConv(tA))))]
    /\ store \in Stores


\* ------------------------------------------------------------- file system
existe(fs, nome) == \E f \in fs : f.nome = nome
ler(fs, nome) == (CHOOSE f \in fs : f.nome = nome).dados
escrever(fs, nome, r, dados) ==
    {f \in fs : f.nome # nome} \cup {[nome |-> nome, dono |-> r, dados |-> dados]}
remover(fs, nome) == {f \in fs : f.nome # nome}

\* A cleanup that forgets the transcoded file.
limpar_so_ogg(fs) == remover(fs, caminho_audio_ogg)

\* main.py:237-239, the finally block of the audio step.
limpar(fs) == remover(remover(fs, caminho_audio_ogg), caminho_audio_mp3)

\* ------------------------------------------------------------ control flow
Passo(r, p, l, ch, rs, st) ==
    /\ pc' = [pc EXCEPT ![r] = p]
    /\ loop' = l
    /\ chamadas' = [chamadas EXCEPT ![r] = @ \o ch]
    /\ resultados' = [resultados EXCEPT ![r] = @ \o rs]
    /\ status' = [status EXCEPT ![r] = st]

\* A return of the handler.
Retornar(r, rs, st) == Passo(r, Fim, 0, <<>>, rs, st)

\* An except block that raises without the fallback send-text.
Excecao_sem_fallback(r, rs) == Passo(r, Fim, 0, <<>>, rs, "HTTP_500")

\* main.py:267-270: the except block issues the fallback send-text.
Excecao(r, rs) == Passo(r, "send_erro", 0, <<"send_erro">>, rs, status[r])

Retomavel(r, p) == pc[r] = p /\ loop = 0
Bloqueante(r, p) == pc[r] = p /\ loop = r

dados_de(r) == Val(inbox[r].data)
message_obj(r) == desembrulhar(dados_de(r).message)

TurnoAudio(mp3) ==
    [role |-> "user",
     parts |-> <<[kind |-> "text", data |-> INSTRUCAO_AUDIO],
                 [kind |-> "audio/mp3", data |-> mp3]>>]

\* A triage without the target-conversation check of main.py:177.
triagem_sem_alvo(data) ==
    IF data.event # "messages.upsert" THEN "evento_ignorado"
    ELSE IF ~Tem(data.data) \/ Val(data.data).key.fromMe THEN "ignorado"
    ELSE ""

\* A triage without the fromMe check of main.py:175.
triagem_sem_fromMe(data) ==
    IF data.event # "messages.upsert" THEN "evento_ignorado"
    ELSE IF ~Tem(data.data) THEN "ignorado"
    ELSE IF Val(data.data).key.remoteJid = ""
            \/ Val(data.data).key.remoteJid # TARGET_JID THEN "ignorado"
    ELSE ""

\* main.py:173-177: the status an event is dropped with, "" when accepted.
triagem(data) ==
    IF data.event # "messages.upsert" THEN "evento_ignorado"
    ELSE IF ~Tem(data.data) \/ Val(data.data).key.fromMe THEN "ignorado"
    ELSE IF Val(data.data).key.remoteJid = ""
            \/ Val(data.data).key.remoteJid # TARGET_JID THEN "ignorado"
    ELSE ""

\* main.py:171-186 and 72-89: the handler up to its first await.
webhook_receiver(r) ==
    /\ r \in ativo
    /\ Retomavel(r, Ocioso)
    /\ entregas' = [entregas EXCEPT ![r] = @ + 1]
    /\ UNCHANGED <<ativo, inbox, store, historico_ordenado, historico,
                   conteudo_para_gemini, audio, entrega>>
    /\ IF triagem(inbox[r]) # ""
       THEN /\ Retornar(r, <<>>, triagem(inbox[r]))
            /\ UNCHANGED <<pagina_atual, total_paginas, historico_completo, pedidas>>
       ELSE /\ historico_completo' = [historico_completo EXCEPT ![r] = <<>>]
            /\ pagina_atual' = [pagina_atual EXCEPT ![r] = 1]
            /\ total_paginas' = [total_paginas EXCEPT ![r] = 1]
            /\ pedidas' = [pedidas EXCEPT ![r] = Append(@, 1)]
            /\ Passo(r, "hist", 0, <<"find">>, <<>>, "")

\* main.py:187-250: after the history, up to the next await or blocking call.
continuar(r, hist) ==
    LET obj == message_obj(r)
        sem_conteudo == [pc |-> Fim, loop |-> 0, ch |-> <<>>,
                         st |-> "ignorado_sem_conteudo_util", conteudo |-> hist]
    IN IF Tem(obj.ext) \/ Tem(obj.conv)
       THEN IF texto_de(obj) = <<>> THEN sem_conteudo
            ELSE [pc |-> "gen", loop |-> r, ch |-> <<"generate">>, st |-> "",
                  conteudo |-> Append(hist, TurnoTexto("user", texto_de(obj)))]
       ELSE IF obj.audio
       THEN IF dados_de(r).key.id = ""
            THEN [pc |-> Fim, loop |-> 0, ch |-> <<>>, st |-> "erro_sem_id",
                  conteudo |-> hist]
            ELSE [pc |-> "media", loop |-> 0, ch |-> <<"media">>, st |-> "",
                  conteudo |-> hist]
       ELSE sem_conteudo

HistoricoPronto(r, hist, rs) ==
    LET c == continuar(r, hist)
    IN /\ historico' = [historico EXCEPT ![r] = Algum(hist)]
       /\ conteudo_para_gemini' = [conteudo_para_gemini EXCEPT ![r] = c.conteudo]
       /\ Passo(r, c.pc, c.loop, c.ch, rs, c.st)

\* The records of page n of the store.
pagina_do_store(n) == IF n <= Len(store) THEN store[n] ELSE <<>>

\* The "pages" field of the response to page n: the gateway's page count,
\* which may have grown by the time a later page is answered.
pages_do_store(n) == IF n = 1 THEN {Len(store)} ELSE {Len(store), Len(store) + 1}

\* A page count taken from every response.
novo_total_sempre(pagina, total, pages) == pages

\* main.py:96-97: the page count is taken from the first response only.
novo_total(pagina, total, pages) == IF pagina = 1 THEN pages ELSE total

\* main.py:89-102: a find-messages page arrives with a 2xx response. After
\* the last page the loop ends and the coroutine is suspended once more while
\* the client of main.py:79 is closed.
obter_historico_conversa(r) ==
    /\ Retomavel(r, "hist")
    /\ UNCHANGED <<ambiente, audio, entrega>>
    /\ \E pages \in pages_do_store(pagina_atual[r]) :
       LET total == novo_total(pagina_atual[r], total_paginas[r], pages)
           completo == historico_completo[r] \o pagina_do_store(pagina_atual[r])
           proxima == pagina_atual[r] + 1
       IN /\ total_paginas' = [total_paginas EXCEPT ![r] = total]
          /\ historico_completo' = [historico_completo EXCEPT ![r] = completo]
          /\ pagina_atual' = [pagina_atual EXCEPT ![r] = proxima]
          /\ IF proxima <= total
             THEN /\ pedidas' = [pedidas EXCEPT ![r] = Append(@, proxima)]
                  /\ Passo(r, "hist", 0, <<"find">>, <<"ok">>, "")
                  /\ UNCHANGED <<historico_ordenado, historico, conteudo_para_gemini>>
             ELSE /\ Passo(r, "fechar", 0, <<>>, <<"ok">>, "")
                  /\ UNCHANGED <<historico_ordenado, historico, conteudo_para_gemini,
                                 pedidas>>

\* main.py:79, 104-107 and 186-256: the client is closed; the records are
\* sorted and formatted, the history is returned and the handler goes on.
HistoricoRetornado(r) ==
    /\ Retomavel(r, "fechar")
    /\ UNCHANGED <<ambiente, audio, entrega, pagina_atual, total_paginas,
                   historico_completo, pedidas>>
    /\ historico_ordenado' =
           [historico_ordenado EXCEPT ![r] = sorted(historico_completo[r])]
    /\ HistoricoPronto(r, formatar_historico_para_gemini(sorted(historico_completo[r])),
                       <<>>)

\* main.py:109-111: what the except clause returns when a page fetch raises
\* httpx.RequestError.
valor_no_erro(completo) == <<>>

HistoricoRequestError(r) ==
    /\ Retomavel(r, "hist")
    /\ UNCHANGED <<ambiente, audio, entrega, pagina_atual, total_paginas,
                   historico_completo, historico_ordenado, pedidas>>
    /\ \E d \in RequestErrors :
          HistoricoPronto(r, valor_no_erro(historico_completo[r]), <<d>>)

\* main.py:90: raise_for_status raises httpx.HTTPStatusError, which is no
\* RequestError and leaves obter_historico_conversa.
HistoricoHTTPStatusError(r) ==
    /\ Retomavel(r, "hist")
    /\ UNCHANGED <<ambiente, audio, entrega, locais, conteudo_para_gemini, pedidas>>
    /\ Excecao(r, <<"http">>)


\* ---------------------------------------------------------------- audio step
\* main.py:217-218: the media fetch raises (RequestError or HTTPStatusError);
\* the finally block runs, then the except block of the handler.
MediaFalhou(r) ==
    /\ Retomavel(r, "media")
    /\ UNCHANGED <<ambiente, locais, conteudo_para_gemini, entrega, pedidas,
                   audio_data, mp3_audio_data, criados>>
    /\ files' = limpar(files)
    /\ \E d \in {"rede", "http"} : Excecao(r, <<d>>)

\* A transcoder run that gives the event loop back while it waits.
loop_livre(r) == 0

\* main.py:225-232: no await between writing the raw file and the return of
\* subprocess.run; the request keeps the event loop.
loop_no_subprocess(r) == r

\* main.py:219-227: a 2xx media response; decode it and write the raw file.
MediaRecebida(r) ==
    /\ Retomavel(r, "media")
    /\ UNCHANGED <<ambiente, locais, conteudo_para_gemini, entrega, pedidas,
                   mp3_audio_data>>
    /\ \E base64_audio \in PayloadsMedia :
       \E resultado \in (IF Tem(base64_audio) THEN b64decode(Val(base64_audio))
                         ELSE {ErroBinascii}) :
          IF ~Tem(base64_audio) \/ Val(base64_audio) = <<>> \/ resultado.erro
          THEN /\ files' = limpar(files)
               /\ UNCHANGED <<audio_data, criados>>
               /\ Excecao(r, <<"ok">>)
          ELSE LET decodificado == resultado.bytes
                   gravado == escrever(files, caminho_audio_ogg, r, decodificado)
               IN /\ audio_data' = [audio_data EXCEPT ![r] = decodificado]
                  /\ criados' = [criados EXCEPT ![r] = @ \cup {caminho_audio_ogg}]
                  /\ IF decodificado = <<>>
                     THEN /\ files' = limpar(gravado)
                          /\ Excecao(r, <<"ok">>)
                     ELSE /\ files' = gravado
                          /\ Passo(r, "ffmpeg", loop_no_subprocess(r),
                                   <<"ffmpeg">>, <<"ok">>, "")

\* main.py:232-247, 253: ffmpeg exits 0 and its output is read back; clean up
\* and go on to the generation call, or to the apology for an empty output.
Transcodificado(r) ==
    /\ Bloqueante(r, "ffmpeg")
    /\ existe(files, caminho_audio_ogg)
    /\ UNCHANGED <<ambiente, locais, entrega, pedidas, audio_data>>
    /\ \E saida \in {transcodificar(ler(files, caminho_audio_ogg)), <<>>} :
          LET convertido == escrever(files, caminho_audio_mp3, r, saida)
              lido == ler(convertido, caminho_audio_mp3)
          IN /\ mp3_audio_data' = [mp3_audio_data EXCEPT ![r] = lido]
             /\ criados' = [criados EXCEPT ![r] = @ \cup {caminho_audio_mp3}]
             /\ files' = limpar(convertido)
             /\ IF lido = <<>>
                THEN /\ Passo(r, "send_desculpa", 0, <<"send_desculpa">>, <<"ok">>, "")
                     /\ UNCHANGED conteudo_para_gemini
                ELSE /\ conteudo_para_gemini' =
                            [conteudo_para_gemini EXCEPT ![r] = Append(@, TurnoAudio(lido))]
                     /\ Passo(r, "gen", r, <<"generate">>, <<"ok">>, "")

\* main.py:232-239, 267: ffmpeg exits 0 but the read-back at main.py:235
\* raises OSError: the output file is missing, or it is there and cannot be
\* read. The finally block runs, then the except block of the handler.
LeituraFalhou(r) ==
    /\ Bloqueante(r, "ffmpeg")
    /\ existe(files, caminho_audio_ogg)
    /\ UNCHANGED <<ambiente, locais, conteudo_para_gemini, entrega, pedidas,
                   audio_data, mp3_audio_data>>
    /\ \E ilegivel \in BOOLEAN :
          /\ criados' = [criados EXCEPT ![r] =
                           IF ilegivel THEN @ \cup {caminho_audio_mp3} ELSE @]
          /\ files' = limpar(IF ilegivel
                             THEN escrever(files, caminho_audio_mp3, r,
                                           transcodificar(ler(files, caminho_audio_ogg)))
                             ELSE files)
    /\ Excecao(r, <<"ok">>)

\* main.py:232: ffmpeg is missing or exits non-zero (check=True raises); it
\* may have left a partial output file.
TranscodificacaoFalhou(r) ==
    /\ Bloqueante(r, "ffmpeg")
    /\ UNCHANGED <<ambiente, locais, conteudo_para_gemini, entrega, pedidas,
                   audio_data, mp3_audio_data>>
    /\ \E parcial \in BOOLEAN :
          /\ criados' = [criados EXCEPT ![r] =
                           IF parcial THEN @ \cup {caminho_audio_mp3} ELSE @]
          /\ files' = limpar(IF parcial
                             THEN escrever(files, caminho_audio_mp3, r, <<>>)
                             ELSE files)
    /\ Excecao(r, <<"falha">>)

\* main.py:242-243: the apology send returns or raises RequestError (caught
\* in enviar_resposta_whatsapp); a non-2xx response raises HTTPStatusError,
\* which reaches the except block of the handler.
DesculpaEnviada(r) ==
    /\ Retomavel(r, "send_desculpa")
    /\ UNCHANGED <<ambiente, locais, conteudo_para_gemini, audio, entrega, pedidas>>
    /\ \E d \in Desfechos :
          IF d = "http" THEN Excecao(r, <<d>>)
          ELSE Retornar(r, <<d>>, "erro_processamento_audio")

\* ------------------------------------------------------ generation, delivery
\* main.py:256-262: generate_content returns; compute the delay and signal
\* "composing".
GeradoCom(r, comprimentos) ==
    /\ Bloqueante(r, "gen")
    /\ UNCHANGED <<ambiente, locais, conteudo_para_gemini, audio, pedidas>>
    /\ \E len \in comprimentos :
          /\ texto_resposta' = [texto_resposta EXCEPT ![r] = Algum(len)]
          /\ espera' = [espera EXCEPT ![r] = tempo_de_espera(len)]
    /\ Passo(r, "composing", 0, <<"composing">>, <<"ok">>, "")

Gerado(r) == GeradoCom(r, Respostas)

\* The same step over every reply length.
GeradoPacing(r) == GeradoCom(r, Comprimentos)

\* main.py:256-257: generate_content or .text raises.
GeracaoFalhou(r) ==
    /\ Bloqueante(r, "gen")
    /\ UNCHANGED <<ambiente, locais, conteudo_para_gemini, audio, entrega, pedidas>>
    /\ Excecao(r, <<"falha">>)

\* A presence call whose failure escapes to the handler's except block.
enviar_presenca_propaga(r, tipo, depois, ch) ==
    /\ Retomavel(r, tipo)
    /\ UNCHANGED <<ambiente, locais, conteudo_para_gemini, audio, entrega, pedidas>>
    /\ \E d \in Desfechos :
          IF d = "ok" THEN Passo(r, depois, 0, ch, <<d>>, "")
          ELSE Excecao(r, <<d>>)

\* main.py:119-124: the presence call completes; RequestError is caught and
\* the status code is not looked at.
enviar_presenca(r, tipo, depois, ch) ==
    /\ Retomavel(r, tipo)
    /\ UNCHANGED <<ambiente, locais, conteudo_para_gemini, audio, entrega, pedidas>>
    /\ \E d \in Desfechos : Passo(r, depois, 0, ch, <<d>>, "")

PresencaComposing(r) == enviar_presenca(r, "composing", "sleep", <<>>)

\* A delay followed by the reply, the "paused" signal forgotten.
Dormiu_sem_paused(r) ==
    /\ Retomavel(r, "sleep")
    /\ UNCHANGED <<ambiente, locais, conteudo_para_gemini, audio, entrega, pedidas>>
    /\ Passo(r, "send_reply", 0, <<"send_reply">>, <<>>, "")

\* main.py:263-264: the pacing delay ends; signal "paused".
Dormiu(r) ==
    /\ Retomavel(r, "sleep")
    /\ UNCHANGED <<ambiente, locais, conteudo_para_gemini, audio, entrega, pedidas>>
    /\ Passo(r, "paused", 0, <<"paused">>, <<>>, "")

\* main.py:264-265: "paused" completes; send the reply.
PresencaPaused(r) == enviar_presenca(r, "paused", "send_reply", <<"send_reply">>)

\* main.py:140-146, 265, 274: the reply send completes.
enviar_resposta_whatsapp(r) ==
    /\ Retomavel(r, "send_reply")
    /\ UNCHANGED <<ambiente, locais, conteudo_para_gemini, audio, entrega, pedidas>>
    /\ \E d \in Desfechos :
          IF d = "http" THEN Excecao(r, <<d>>)
          ELSE Retornar(r, <<d>>, "recebido_e_processado")

\* A fallback send whose own failure replaces the surfaced status.
FallbackEnviado_propaga(r) ==
    /\ Retomavel(r, "send_erro")
    /\ UNCHANGED <<ambiente, locais, conteudo_para_gemini, audio, entrega, pedidas>>
    /\ \E d \in Desfechos :
          Retornar(r, <<d>>, IF d = "ok" THEN "HTTP_500" ELSE "falha_no_fallback")

\* main.py:269-272: the fallback send completes, whatever its outcome, and
\* the handler raises HTTPException(500).
FallbackEnviado(r) ==
    /\ Retomavel(r, "send_erro")
    /\ UNCHANGED <<ambiente, locais, conteudo_para_gemini, audio, entrega, pedidas>>
    /\ \E d \in Desfechos : Retornar(r, <<d>>, "HTTP_500")

\* The gateway delivers the same event to the handler again.
Reentregar(r) ==
    /\ pc[r] = Fim
    /\ loop = 0
    /\ entregas[r] < MaxEntregas
    /\ pc' = [pc EXCEPT ![r] = Ocioso]
    /\ pagina_atual' = [pagina_atual EXCEPT ![r] = 1]
    /\ total_paginas' = [total_paginas EXCEPT ![r] = 1]
    /\ historico_completo' = [historico_completo EXCEPT ![r] = <<>>]
    /\ historico_ordenado' = [historico_ordenado EXCEPT ![r] = <<>>]
    /\ historico' = [historico EXCEPT ![r] = Nada]
    /\ conteudo_para_gemini' = [conteudo_para_gemini EXCEPT ![r] = <<>>]
    /\ audio_data' = [audio_data EXCEPT ![r] = <<>>]
    /\ mp3_audio_data' = [mp3_audio_data EXCEPT ![r] = <<>>]
    /\ texto_resposta' = [texto_resposta EXCEPT ![r] = Nada]
    /\ espera' = [espera EXCEPT ![r] = 0]
    /\ chamadas' = [chamadas EXCEPT ![r] = <<>>]
    /\ resultados' = [resultados EXCEPT ![r] = <<>>]
    /\ pedidas' = [pedidas EXCEPT ![r] = <<>>]
    /\ status' = [status EXCEPT ![r] = ""]
    /\ criados' = [criados EXCEPT ![r] = {}]
    /\ UNCHANGED <<ativo, inbox, store, entregas, loop, files>>

Next ==
    \E r \in Reqs :
        \/ webhook_receiver(r)
        \/ obter_historico_conversa(r)
        \/ HistoricoRetornado(r)
        \/ HistoricoRequestError(r)
        \/ HistoricoHTTPStatusError(r)
        \/ MediaFalhou(r)
        \/ MediaRecebida(r)
        \/ Transcodificado(r)
        \/ LeituraFalhou(r)
        \/ TranscodificacaoFalhou(r)
        \/ DesculpaEnviada(r)
        \/ Gerado(r)
        \/ GeracaoFalhou(r)
        \/ PresencaComposing(r)
        \/ Dormiu(r)
        \/ PresencaPaused(r)
        \/ enviar_resposta_whatsapp(r)
        \/ FallbackEnviado(r)
        \/ Reentregar(r)

\* Every step of the handler, each event delivered once.
NextConc ==
    \E r \in Reqs :
        \/ webhook_receiver(r)
        \/ obter_historico_conversa(r)
        \/ HistoricoRetornado(r)
        \/ HistoricoRequestError(r)
        \/ HistoricoHTTPStatusError(r)
        \/ MediaFalhou(r)
        \/ MediaRecebida(r)
        \/ Transcodificado(r)
        \/ LeituraFalhou(r)
        \/ TranscodificacaoFalhou(r)
        \/ DesculpaEnviada(r)
        \/ Gerado(r)
        \/ GeracaoFalhou(r)
        \/ PresencaComposing(r)
        \/ Dormiu(r)
        \/ PresencaPaused(r)
        \/ enviar_resposta_whatsapp(r)
        \/ FallbackEnviado(r)

NextHist ==
    \E r \in Reqs :
        \/ webhook_receiver(r)
        \/ obter_historico_conversa(r)
        \/ HistoricoRetornado(r)
        \/ HistoricoRequestError(r)
        \/ HistoricoHTTPStatusError(r)

\* The handler up to the pacing delay, over every reply length.
NextPacing ==
    \E r \in Reqs :
        \/ webhook_receiver(r)
        \/ obter_historico_conversa(r)
        \/ HistoricoRetornado(r)
        \/ GeradoPacing(r)

Spec == Init /\ [][Next]_vars
SpecPacing == InitPacing /\ [][NextPacing]_vars
SpecConc == InitConc /\ [][NextConc]_vars
SpecHist == InitHist /\ [][NextHist]_vars


\* ===================================================================== claims
Aceito(r) ==
    /\ r \in ativo
    /\ inbox[r].event = "messages.upsert"
    /\ Tem(inbox[r].data)
    /\ ~dados_de(r).key.fromMe
    /\ dados_de(r).key.remoteJid = TARGET_JID

TemLetra(t) == \E i \in 1..Len(t) : ~EhEspaco(t[i])

\* Index of the result of call c in the log of r, where it has completed.
Resultado(r, c, d) ==
    \E i \in 1..Len(resultados[r]) : chamadas[r][i] = c /\ resultados[r][i] = d

EhEnvio(c) == c \in {"send_reply", "send_erro", "send_desculpa"}
envios(r) == SelectSeq(chamadas[r], EhEnvio)
NaoEhFind(c) == c # "find"
depois_do_historico(r) == SelectSeq(chamadas[r], NaoEhFind)

\* ------------------------------------------------------------------------ C1
RemetenteDiferente(r) ==
    /\ inbox[r].event = "messages.upsert"
    /\ Tem(inbox[r].data)
    /\ dados_de(r).key.remoteJid # TARGET_JID

\* C1: a messages-upsert event whose sender is not the target conversation
\* issues no outbound call and returns "ignorado", on every delivery of it.
C1_OutroRemetenteIgnorado ==
    \A r \in Reqs :
        RemetenteDiferente(r) =>
            /\ chamadas[r] = <<>>
            /\ pc[r] \in {Ocioso, Fim}
            /\ (pc[r] = Fim => status[r] = "ignorado")

C1_Witness ==
    \E r \in Reqs :
        /\ RemetenteDiferente(r)
        /\ ~dados_de(r).key.fromMe
        /\ dados_de(r).key.remoteJid = "outro@jid"
        /\ entregas[r] >= 2
        /\ pc[r] = Fim
        /\ status[r] = "ignorado"

\* ------------------------------------------------------------------------ C2
SemConteudo(r) ==
    LET obj == desembrulhar(dados_de(r).message)
    IN \/ ~Tem(obj.ext) /\ ~Tem(obj.conv) /\ ~obj.audio
       \/ (Tem(obj.ext) \/ Tem(obj.conv)) /\ ~TemLetra(texto_bruto(obj))

\* C2: an accepted event without content is dropped with an ignored status
\* and no call of any kind is made for it.
C2_SemConteudoSemChamadas ==
    \A r \in Reqs :
        Aceito(r) /\ SemConteudo(r) =>
            /\ chamadas[r] = <<>>
            /\ (pc[r] = Fim => status[r] = "ignorado_sem_conteudo_util")

\* ------------------------------------------------------------------------ C3
\* C3: when the media fetch of an audio message gets a non-2xx response,
\* exactly one fallback send-text is attempted, generation is never invoked
\* and the request creates no temporary file.
C3_MediaNao2xx ==
    \A r \in Reqs :
        Resultado(r, "media", "http") =>
            /\ envios(r) = <<"send_erro">>
            /\ \A i \in 1..Len(chamadas[r]) : chamadas[r][i] \notin {"generate", "ffmpeg"}
            /\ criados[r] = {}
            /\ (pc[r] = Fim => status[r] = "HTTP_500")

C3_Witness ==
    \E r \in Reqs :
        /\ Resultado(r, "media", "http")
        /\ pc[r] = Fim
        /\ chamadas[r] = <<"find", "media", "send_erro">>

\* ------------------------------------------------------------------------ C4
TextoNovo(r) == texto_de(desembrulhar(dados_de(r).message))
MensagemDeTexto(r) ==
    LET obj == desembrulhar(dados_de(r).message)
    IN (Tem(obj.ext) \/ Tem(obj.conv)) /\ TemLetra(texto_bruto(obj))

\* C4: when the history fetch times out for a text message with content,
\* generation is invoked with the empty history followed by the new user
\* turn, and the generated reply is delivered (composing, paused, send-text
\* and nothing else) with the request ending as processed.
C4_TimeoutDoHistorico ==
    \A r \in Reqs :
        Aceito(r) /\ MensagemDeTexto(r) /\ Resultado(r, "find", "timeout") =>
            /\ historico[r] = Algum(<<>>)
            /\ conteudo_para_gemini[r] = <<TurnoTexto("user", TextoNovo(r))>>
            /\ Len(depois_do_historico(r)) >= 1
            /\ depois_do_historico(r)[1] = "generate"
            /\ (pc[r] = Fim /\ Tem(texto_resposta[r]) =>
                  /\ depois_do_historico(r)
                        = <<"generate", "composing", "paused", "send_reply">>
                  /\ status[r] = "recebido_e_processado")


\* ------------------------------------------------------------------------ C5
FalhaNoHistorico(r) ==
    \E d \in {"timeout", "rede", "http"} : Resultado(r, "find", d)

\* C5: no failure of a history page fetch leaves obter_historico_conversa:
\* a history is returned and the handler neither sends the fallback apology
\* right after the failed fetch nor ends with a failure status.
C5_FalhaDoHistoricoNaoEscala ==
    \A r \in Reqs :
        Aceito(r) /\ FalhaNoHistorico(r) =>
            /\ Tem(historico[r])
            /\ \A i \in 1..(Len(chamadas[r]) - 1) :
                  chamadas[r][i] = "find" => chamadas[r][i + 1] # "send_erro"

\* ------------------------------------------------------------------------ C6
\* C6: when the fetch of page N >= 2 fails after pages 1..N-1 arrived, the
\* returned history is the turns of the records accumulated from those pages.
C6_HistoricoAcumulado ==
    \A r \in Reqs :
        /\ Tem(historico[r])
        /\ pagina_atual[r] >= 2
        /\ \E d \in RequestErrors : Resultado(r, "find", d)
        => Val(historico[r]) =
               formatar_historico_para_gemini(sorted(historico_completo[r]))

\* ------------------------------------------------------------------------ C7
\* C7: outside the transcoder call of a request, no temporary file written
\* by that request exists: none is left when its audio step finishes,
\* whatever the exit path (success, media-fetch failure, missing or
\* undecodable base64, empty decoded file, transcoder failure, read-back
\* failure), nor when the request completes.
C7_SemArquivosTemporarios ==
    \A r \in Reqs :
        pc[r] # "ffmpeg" => \A f \in files : f.dono # r

\* One request left the audio step with both files written and read back,
\* the other after a read-back failure on a transcoded file it had written.
C7_Witness ==
    \E r1 \in Reqs : \E r2 \in Reqs \ {r1} :
        /\ criados[r1] = {caminho_audio_ogg, caminho_audio_mp3}
        /\ pc[r1] = Fim
        /\ status[r1] = "recebido_e_processado"
        /\ criados[r2] = {caminho_audio_ogg, caminho_audio_mp3}
        /\ chamadas[r2] = <<"find", "media", "ffmpeg", "send_erro">>
        /\ resultados[r2] = <<"ok", "ok", "ok">>
        /\ pc[r2] = "send_erro"
        /\ files = {}

\* ------------------------------------------------------------------------ C8
\* C8: two audio requests in flight at the same time never use the same
\* temporary file name.
C8_NomesUnicos ==
    \A r1 \in Reqs : \A r2 \in Reqs \ {r1} :
        EmVoo(r1) /\ EmVoo(r2) => criados[r1] \cap criados[r2] = {}

\* ------------------------------------------------------------------------ C9
Sucesso(r) == Tem(historico[r]) /\ ~FalhaNoHistorico(r)
TemConteudo(reg) == TemLetra(texto_bruto(desembrulhar(reg.message)))
Ocorrencias(reg, regs) == Cardinality({i \in 1..Len(regs) : regs[i] = reg})

\* C9: the history a successful obter_historico_conversa returns is ordered
\* oldest first: its turns are those of the fetched records that carry text,
\* taken in an order of non-decreasing message timestamp.
C9_HistoricoOrdenado ==
    \A r \in Reqs :
        Sucesso(r) =>
            LET ordenado == historico_ordenado[r]
                mantidos == SelectSeq(ordenado, TemConteudo)
                turnos == Val(historico[r])
            IN /\ \A reg \in Registros :
                     Ocorrencias(reg, ordenado) = Ocorrencias(reg, historico_completo[r])
               /\ Len(turnos) = Len(mantidos)
               /\ \A i \in 1..Len(turnos) :
                     /\ turnos[i].role = role_de(mantidos[i])
                     /\ turnos[i].parts[1].data
                           = texto_de(desembrulhar(mantidos[i].message))
               /\ \A i \in 1..Len(mantidos) : \A j \in i..Len(mantidos) :
                     mantidos[i].ts <= mantidos[j].ts

\* Records arrived newest first and two of them became turns.
C9_Witness ==
    \E r \in Reqs :
        /\ Sucesso(r)
        /\ Len(Val(historico[r])) >= 2
        /\ \E i \in 1..Len(historico_completo[r]) :
              \E j \in i..Len(historico_completo[r]) :
                 /\ historico_completo[r][i].ts > historico_completo[r][j].ts
                 /\ TemConteudo(historico_completo[r][i])
                 /\ TemConteudo(historico_completo[r][j])

\* ----------------------------------------------------------------------- C10
\* C10: no returned turn has a text that is empty after trimming, and a
\* successful call returns exactly one turn per fetched record whose
\* extracted text is not empty or whitespace-only.
C10_SemTurnoVazio ==
    \A r \in Reqs :
        Tem(historico[r]) =>
            /\ \A i \in 1..Len(Val(historico[r])) :
                  LET t == Val(historico[r])[i].parts[1].data
                  IN TemLetra(t) /\ ~EhEspaco(t[1]) /\ ~EhEspaco(t[Len(t)])
            /\ (Sucesso(r) =>
                  Len(Val(historico[r])) =
                     Cardinality({i \in 1..Len(historico_completo[r]) :
                                     TemConteudo(historico_completo[r][i])}))

C10_Witness ==
    \E r \in Reqs :
        /\ Sucesso(r)
        /\ Len(Val(historico[r])) >= 1
        /\ Len(Val(historico[r])) < Len(historico_completo[r])
        /\ \E i \in 1..Len(historico_completo[r]) :
              texto_bruto(desembrulhar(historico_completo[r][i].message)) = tEsp


\* ----------------------------------------------------------------------- C11
Comprimento(r) == Val(texto_resposta[r])

\* C11: the pacing delay is the reply length times 0.06 s clamped to
\* [2 s, 8 s] (here in milliseconds): never below 2 s, never above 8 s,
\* non-decreasing in the reply length, 2 s for 10 characters and 8 s for 500.
C11_AtrasoLimitado ==
    /\ \A r \in Reqs :
          Tem(texto_resposta[r]) =>
              /\ espera[r] >= 2000
              /\ espera[r] <= 8000
              /\ espera[r] = IF Comprimento(r) * 60 < 2000 THEN 2000
                             ELSE IF Comprimento(r) * 60 > 8000 THEN 8000
                             ELSE Comprimento(r) * 60
              /\ (Comprimento(r) = 10 => espera[r] = 2000)
              /\ (Comprimento(r) = 500 => espera[r] = 8000)
    /\ \A r1 \in Reqs : \A r2 \in Reqs :
          /\ Tem(texto_resposta[r1]) /\ Tem(texto_resposta[r2])
          /\ Comprimento(r1) <= Comprimento(r2)
          => espera[r1] <= espera[r2]

\* One reply strictly inside the clamp, a longer one at the ceiling.
C11_Witness ==
    \E r1 \in Reqs : \E r2 \in Reqs :
        /\ Tem(texto_resposta[r1]) /\ Tem(texto_resposta[r2])
        /\ Comprimento(r1) = 100 /\ espera[r1] = 6000
        /\ Comprimento(r2) = 500 /\ espera[r2] = 8000


\* ----------------------------------------------------------------------- C12
EhDaEntrega(c) == c \in {"composing", "paused", "send_reply"}
chamadas_da_entrega(r) == SelectSeq(chamadas[r], EhDaEntrega)
Concluida(r, c) ==
    \E i \in 1..Len(resultados[r]) : chamadas[r][i] = c

C12_Ordem ==
    \A r \in Reqs :
        /\ ~Tem(texto_resposta[r]) => chamadas_da_entrega(r) = <<>>
        /\ Tem(texto_resposta[r]) =>
              /\ chamadas_da_entrega(r) =
                    IF pc[r] \in {"composing", "sleep"} THEN <<"composing">>
                    ELSE IF pc[r] = "paused" THEN <<"composing", "paused">>
                    ELSE <<"composing", "paused", "send_reply">>
              /\ Concluida(r, "generate")
              /\ (pc[r] = "sleep" => Concluida(r, "composing"))
              /\ (\E i \in 1..Len(chamadas[r]) : chamadas[r][i] = "send_reply")
                    => Concluida(r, "paused")

C12_AtrasoAntesDePaused ==
    \A r \in Reqs :
        pc'[r] = "paused" /\ pc[r] # "paused" =>
            pc[r] = "sleep" /\ espera[r] = tempo_de_espera(Comprimento(r))

\* C12: after a successful generation the handler signals "composing",
\* waits the pacing delay, signals "paused" and then sends the reply, each
\* once and in that order; no presence signal precedes the return of the
\* generation and the reply is not sent before "paused" has completed.
C12_EntregaEmOrdem == [](C12_Ordem) /\ [][C12_AtrasoAntesDePaused]_vars

C12_Witness ==
    \E r \in Reqs :
        /\ pc[r] = Fim
        /\ status[r] = "recebido_e_processado"
        /\ chamadas[r] = <<"find", "generate", "composing", "paused", "send_reply">>
        /\ resultados[r] = <<"ok", "ok", "ok", "ok", "ok">>


\* ----------------------------------------------------------------------- C13
EhPresenca(c) == c \in {"composing", "paused"}
Falhou(d) == d \in {"rede", "http"}
PresencaFalhou(r, i) ==
    /\ i \in 1..Len(resultados[r])
    /\ EhPresenca(chamadas[r][i])
    /\ Falhou(resultados[r][i])

\* C13: a failed presence signal (network error, timeout, non-2xx answer)
\* never aborts the delivery: the handler goes on to the next delivery step,
\* the reply send-text is still issued, and the call that follows a failed
\* presence signal is never the fallback apology.
C13_PresencaNaoAborta ==
    \A r \in Reqs : \A i \in 1..Len(chamadas[r]) :
        PresencaFalhou(r, i) =>
            /\ chamadas[r][i] = "composing" =>
                  /\ pc[r] \in {"sleep", "paused", "send_reply", "send_erro", Fim}
                  /\ (Len(chamadas[r]) > i => chamadas[r][i + 1] = "paused")
            /\ chamadas[r][i] = "paused" =>
                  /\ pc[r] \in {"send_reply", "send_erro", Fim}
                  /\ Len(chamadas[r]) > i
                  /\ chamadas[r][i + 1] = "send_reply"
            /\ (pc[r] \in {"send_erro", Fim} =>
                  \E j \in 1..Len(chamadas[r]) : j > i /\ chamadas[r][j] = "send_reply")

C13_Witness ==
    \E r \in Reqs :
        /\ pc[r] = Fim
        /\ status[r] = "recebido_e_processado"
        /\ chamadas[r] = <<"find", "generate", "composing", "paused", "send_reply">>
        /\ resultados[r] = <<"ok", "ok", "rede", "http", "ok">>


\* ----------------------------------------------------------------------- C14
\* C14: when the send-text of the generated reply fails (network error,
\* timeout or non-2xx answer) the failure is only logged: no fallback apology
\* is sent and the request ends with status "recebido_e_processado".
C14_FalhaDoEnvioSoRegistrada ==
    \A r \in Reqs :
        (\E d \in {"rede", "http"} : Resultado(r, "send_reply", d)) =>
            /\ pc[r] = Fim
            /\ status[r] = "recebido_e_processado"
            /\ \A i \in 1..Len(chamadas[r]) : chamadas[r][i] # "send_erro"

\* ----------------------------------------------------------------------- C15
posicoes(r, c) == {i \in 1..Len(chamadas[r]) : chamadas[r][i] = c}
EmErro(r) == posicoes(r, "send_erro") # {}

\* C15: a request whose pipeline step failed (in particular a failed
\* generation) issues exactly one fallback send-text of the apology and then
\* ends with the failure status, whatever the outcome of the fallback send;
\* the fallback apology is the last outbound call of the request.
C15_UmFallbackDepoisFalha ==
    \A r \in Reqs :
        /\ Resultado(r, "generate", "falha") => EmErro(r)
        /\ (pc[r] = "send_erro" \/ status[r] = "HTTP_500") => EmErro(r)
        /\ EmErro(r) =>
              /\ posicoes(r, "send_erro") = {Len(chamadas[r])}
              /\ pc[r] \in {"send_erro", Fim}
              /\ (pc[r] = "send_erro" =>
                    Len(resultados[r]) = Len(chamadas[r]) - 1 /\ status[r] = "")
              /\ (pc[r] = Fim =>
                    Len(resultados[r]) = Len(chamadas[r]) /\ status[r] = "HTTP_500")

C15_Witness ==
    \E r \in Reqs :
        /\ pc[r] = Fim
        /\ status[r] = "HTTP_500"
        /\ chamadas[r] = <<"find", "generate", "send_erro">>
        /\ resultados[r] = <<"ok", "falha", "http">>


\* ----------------------------------------------------------------------- C16
\* The steps request r takes in NextConc.
PassoDe(r) ==
    \/ webhook_receiver(r)
    \/ obter_historico_conversa(r)
    \/ HistoricoRetornado(r)
    \/ HistoricoRequestError(r)
    \/ HistoricoHTTPStatusError(r)
    \/ MediaFalhou(r)
    \/ MediaRecebida(r)
    \/ Transcodificado(r)
    \/ LeituraFalhou(r)
    \/ TranscodificacaoFalhou(r)
    \/ DesculpaEnviada(r)
    \/ Gerado(r)
    \/ GeracaoFalhou(r)
    \/ PresencaComposing(r)
    \/ Dormiu(r)
    \/ PresencaPaused(r)
    \/ enviar_resposta_whatsapp(r)
    \/ FallbackEnviado(r)

\* C16: no step of one request blocks another: whatever the other requests
\* are doing, the transcoder run and the generation call included, every
\* request in flight can take its next step.
C16_NinguemBloqueia ==
    \A r \in Reqs : EmVoo(r) => ENABLED PassoDe(r)


\* ----------------------------------------------------------------------- C17
EventoDeAudio(r) ==
    /\ Aceito(r)
    /\ ~Tem(message_obj(r).ext) /\ ~Tem(message_obj(r).conv)
    /\ message_obj(r).audio
primeira(r, c) ==
    IF posicoes(r, c) = {} THEN 0
    ELSE CHOOSE i \in posicoes(r, c) : \A j \in posicoes(r, c) : i <= j

\* C17: history assembly never starts before extraction and audio
\* acquisition have succeeded: for an audio event the find-messages request
\* comes after the media fetch, and when the media fetch or its decoding
\* fails neither find-messages nor the generation is invoked.
C17_HistoricoDepoisDoAudio ==
    \A r \in Reqs :
        EventoDeAudio(r) =>
            /\ posicoes(r, "find") # {} =>
                  /\ posicoes(r, "media") # {}
                  /\ primeira(r, "media") < primeira(r, "find")
            /\ (posicoes(r, "media") # {} /\ posicoes(r, "ffmpeg") = {}
                /\ pc[r] \in {"send_erro", Fim}) =>
                  posicoes(r, "find") = {} /\ posicoes(r, "generate") = {}


\* ----------------------------------------------------------------------- C18
RECURSIVE registros_ate(_)
registros_ate(n) == IF n = 0 THEN <<>> ELSE registros_ate(n - 1) \o store[n]

FindsFeitos(r) == Cardinality(posicoes(r, "find"))

PaginacaoLimitada(r) ==
    /\ \A i \in 1..Len(pedidas[r]) : pedidas[r][i] = i
    /\ Len(pedidas[r]) = FindsFeitos(r)
    /\ pagina_atual[r] >= 2 => total_paginas[r] = Len(store)
    /\ Len(pedidas[r]) <= Max(1, Len(store))
    /\ FalhaNoHistorico(r) =>
          /\ pc[r] # "hist"
          /\ \E i \in 1..Len(resultados[r]) :
                /\ chamadas[r][i] = "find" /\ resultados[r][i] # "ok"
                /\ \A j \in posicoes(r, "find") : j <= i

\* C18 as stated: pagination requests pages 1, 2, 3, ... in increasing order,
\* none twice, takes the page count from the first response only, issues at
\* most max(1, count) requests and stops at the first failure; when every
\* fetch succeeds it has requested exactly pages 1..count and accumulated the
\* records of all of them.
C18_Original ==
    \A r \in Reqs :
        /\ PaginacaoLimitada(r)
        /\ Sucesso(r) =>
              /\ Len(pedidas[r]) = Len(store)
              /\ historico_completo[r] = registros_ate(Len(store))

\* C18 amended: as above, but when every fetch succeeds the pages requested
\* are exactly 1..max(1, count): page 1 is requested even when the count the
\* first response reports is 0.
C18_PaginacaoTermina ==
    \A r \in Reqs :
        /\ PaginacaoLimitada(r)
        /\ Sucesso(r) =>
              /\ Len(pedidas[r]) = Max(1, Len(store))
              /\ historico_completo[r] = registros_ate(Len(store))

C18_Witness ==
    \E r \in Reqs :
        /\ Sucesso(r)
        /\ Len(store) = 2
        /\ pedidas[r] = <<1, 2>>
        /\ total_paginas[r] = 2
        /\ historico_completo[r] = store[1] \o store[2]
        /\ historico_completo[r] # <<>>


\* ----------------------------------------------------------------------- C19
OutroPodeAndar(r) == \E r2 \in Reqs \ {r} : ENABLED PassoDe(r2)

\* C19: the part of the audio step that uses the fixed-name files has no
\* suspension point: a temporary file exists only while its owner holds the
\* event loop inside the transcoder call, when no other request can take a
\* step, and the transcoded bytes a request hands to the generation are the
\* transcoding of the raw bytes that same request fetched.
C19_SecaoSemSuspensao ==
    /\ files # {} =>
          /\ loop \in Reqs
          /\ pc[loop] = "ffmpeg"
          /\ \A f \in files : f.dono = loop
          /\ ~OutroPodeAndar(loop)
    /\ \A r \in Reqs :
          /\ pc[r] = "ffmpeg" =>
                ler(files, caminho_audio_ogg) = audio_data[r]
          /\ mp3_audio_data[r] # <<>> =>
                /\ mp3_audio_data[r] = transcodificar(audio_data[r])
                /\ conteudo_para_gemini[r][Len(conteudo_para_gemini[r])]
                      = TurnoAudio(transcodificar(audio_data[r]))

C19_Witness ==
    /\ audio_data[1] # <<>>
    /\ audio_data[2] # <<>>
    /\ audio_data[1] # audio_data[2]
    /\ pc[1] = "ffmpeg"
    /\ pc[2] = "composing"
    /\ mp3_audio_data[2] = transcodificar(audio_data[2])
    /\ ler(files, caminho_audio_ogg) = audio_data[1]


\* ----------------------------------------------------------------------- C20
OutroEvento(r) == r \in ativo /\ inbox[r].event # "messages.upsert"
SemDados(r) ==
    r \in ativo /\ inbox[r].event = "messages.upsert" /\ ~Tem(inbox[r].data)
DeMimMesmo(r) ==
    /\ r \in ativo
    /\ inbox[r].event = "messages.upsert"
    /\ Tem(inbox[r].data)
    /\ dados_de(r).key.fromMe

\* C20: an event of another type, an event without data and an event whose
\* key.fromMe is true make no outbound call and end with an ignored status;
\* the events the handler's own sends produce (fromMe true) get no reply.
C20_SemAutoResposta ==
    \A r \in Reqs :
        OutroEvento(r) \/ SemDados(r) \/ DeMimMesmo(r) =>
            /\ chamadas[r] = <<>>
            /\ pedidas[r] = <<>>
            /\ ~Tem(texto_resposta[r])
            /\ pc[r] \in {Ocioso, Fim}
            /\ pc[r] = Fim =>
                  status[r] = IF OutroEvento(r) THEN "evento_ignorado" ELSE "ignorado"

C20_Witness ==
    \E r \in Reqs :
        /\ DeMimMesmo(r)
        /\ dados_de(r).key.remoteJid = TARGET_JID
        /\ TemLetra(texto_de(message_obj(r)))
        /\ pc[r] = Fim
        /\ entregas[r] = 2
        /\ status[r] = "ignorado"

====
